---- MODULE Spec2Model ----
(***************************************************************************)
(* A model of the SmCache writer of js-source-scopes:                      *)
(*   src/src/smcache/writer.rs   SmCacheWriter::new, insert_string,        *)
(*                               serialize, line_offsets, WriteWrapper     *)
(*   src/src/swc.rs              ScopeCollector, infer_name_from_ctx,      *)
(*                               infer_name_from_expr                      *)
(*   src/src/scope_name.rs       ScopeName, NameComponent                  *)
(*                                                                         *)
(* Strings are sequences of byte values.  u32 values are kept modulo       *)
(* 2^WordBits: TLC's integers cannot hold 2^32 - 1, so the word is scaled  *)
(* down and every `as u32` of the source is a ToU32 here.                  *)
(***************************************************************************)
EXTENDS Integers, Sequences, FiniteSets, TLC

VARIABLES
    pc,            \* position of the operation being modelled
    error,         \* the Err(SmCacheWriterError) that new has returned, if any
    syntax,        \* whether parser.parse_module() gave Ok or Err, swc.rs:16-26
    sm,            \* kind of the decoded source map: "Regular" or "Hermes"
    scope_index,   \* Vec<(SourcePosition, ScopeLookupResult)>, writer.rs:73
    orig_files,    \* the (name, source) pairs the source map has yielded so far
    tokens,        \* the tokens the source map has yielded so far
    locations,     \* the OriginalSourceLocation computed for each of them
    string_bytes,  \* SmCacheWriter.string_bytes
    strings,       \* HashMap<String, u32> of the interner
    files,         \* Vec<(name, raw::File)>
    line_offsets,  \* SmCacheWriter.line_offsets
    mappings,      \* SmCacheWriter.mappings
    last,          \* Option<OriginalSourceLocation>, writer.rs:138
    call,          \* the last insert_string call: argument, result, state before
    position,      \* WriteWrapper.position
    output,        \* what WriteWrapper has written: one chunk per write
    section_start, \* WriteWrapper.position when serialize began each section
    source,        \* the argument of line_offsets
    offsets,       \* the collected result of line_offsets
    path,          \* AstNodePath: the ancestors of the node being visited
    scopes         \* ScopeCollector.scopes

vars == <<pc, error, syntax,
          sm, scope_index, orig_files, tokens, locations, string_bytes, strings, files,
          line_offsets, mappings, last, call, position, output, section_start,
          source, offsets, path, scopes>>

writerVars == <<error, syntax, sm, scope_index, orig_files, tokens, locations, files,
                line_offsets, mappings, last>>
internVars == <<string_bytes, strings, call>>
serializeVars == <<position, output, section_start>>
lineVars == <<source, offsets>>
collectorVars == <<path, scopes>>

-----------------------------------------------------------------------------
(* Bounds of the model.                                                    *)

WordBits == 3
MaxFiles == 2
MaxTokens == 3
MaxSourceLen == 4
MaxDepth == 5

-----------------------------------------------------------------------------
(* Option values and u32.                                                  *)

None == [some |-> FALSE]
Some(v) == [some |-> TRUE, val |-> v]

U32_MAX == 2^WordBits - 1
ToU32(n) == n % (2^WordBits)

NO_FILE_SENTINEL == U32_MAX
ANONYMOUS_SCOPE_SENTINEL == U32_MAX
GLOBAL_SCOPE_SENTINEL == U32_MAX - 1

Min(a, b) == IF a <= b THEN a ELSE b

LF == 10
CR == 13

RECURSIVE StrLess(_, _)
\* byte-wise lexicographic order of two strings (Ord for str)
StrLess(a, b) ==
    IF b = <<>> THEN FALSE
    ELSE IF a = <<>> THEN TRUE
    ELSE IF a[1] # b[1] THEN a[1] < b[1]
    ELSE StrLess(Tail(a), Tail(b))

StrCmp(a, b) == IF a = b THEN "Equal" ELSE IF StrLess(a, b) THEN "Less" ELSE "Greater"

\* Ord for SourcePosition: (line, column) lexicographic
PosCmp(p, q) ==
    IF p.line # q.line THEN (IF p.line < q.line THEN "Less" ELSE "Greater")
    ELSE IF p.column # q.column THEN (IF p.column < q.column THEN "Less" ELSE "Greater")
    ELSE "Equal"

PosLeq(p, q) == PosCmp(p, q) # "Greater"

-----------------------------------------------------------------------------
(* insert_string, writer.rs:197-215                                        *)

RECURSIVE Leb128(_)
\* leb128::write::unsigned: 7 bits per byte, low group first, bit 7 = "more"
Leb128(n) ==
    IF n < 128 THEN <<n>>
    ELSE <<(n % 128) + 128>> \o Leb128(n \div 128)

\* the offset the map holds for s (strings is a set of <<string, offset>>)
StringsHas(strs, s) == \E e \in strs : e[1] = s
StringsGet(strs, s) == (CHOOSE e \in strs : e[1] = s)[2]

\* string_offset = string_bytes.len() as u32
StringOffset(bytes) == ToU32(Len(bytes))

\* the bytes appended for a new string: the length prefix, then the bytes
Encoded(s) == Leb128(Len(s)) \o s

\* insert_string(string_bytes, strings, s): the returned offset and the new state
InsertString(bytes, strs, s) ==
    IF s = <<>> THEN [ret |-> U32_MAX, bytes |-> bytes, strs |-> strs]
    ELSE IF StringsHas(strs, s)
         THEN [ret |-> StringsGet(strs, s), bytes |-> bytes, strs |-> strs]
    ELSE [ret   |-> StringOffset(bytes),
          bytes |-> bytes \o Encoded(s),
          strs  |-> strs \cup {<<s, StringOffset(bytes)>>}]

-----------------------------------------------------------------------------
(* line_offsets, writer.rs:257-272                                         *)

\* the index of the first LF of s at or after i, or 0
\* (FindLF_AnyBreak: a CR ends a line as well)
RECURSIVE FindLF_AnyBreak(_, _)
FindLF_AnyBreak(s, i) ==
    IF i > Len(s) THEN 0
    ELSE IF s[i] = LF \/ s[i] = CR THEN i
    ELSE FindLF_AnyBreak(s, i + 1)

RECURSIVE FindLF(_, _)
FindLF(s, i) ==
    IF i > Len(s) THEN 0
    ELSE IF s[i] = LF THEN i
    ELSE FindLF(s, i + 1)

\* str::lines strips one trailing "\n" and then one trailing "\r" of a piece
StripLineEnd(piece) ==
    LET n == Len(piece)
        a == IF n > 0 /\ piece[n] = LF THEN SubSeq(piece, 1, n - 1) ELSE piece
        m == Len(a)
    IN  IF n > 0 /\ piece[n] = LF /\ m > 0 /\ a[m] = CR THEN SubSeq(a, 1, m - 1) ELSE a

\* str::lines: split_inclusive('\n'), each piece stripped of its line ending;
\* a piece is [start |-> byte offset of its first byte, text |-> the line]
RECURSIVE LinesFrom(_, _)
LinesFrom(s, i) ==
    IF i > Len(s) THEN <<>>
    ELSE LET j == FindLF(s, i)
             e == IF j = 0 THEN Len(s) ELSE j
         IN  <<[start |-> i - 1, text |-> StripLineEnd(SubSeq(s, i, e))]>>
             \o (IF j = 0 THEN <<>> ELSE LinesFrom(s, j + 1))

Lines(s) == LinesFrom(s, 1)

EndsWithNewline(s) == Len(s) > 0 /\ s[Len(s)] = LF

\* source.ends_with('\n').then(|| LineOffset(source.len() as u32))
TrailingLineOffset(s) == IF EndsWithNewline(s) THEN <<ToU32(Len(s))>> ELSE <<>>

LineOffsets(s) ==
    [k \in 1..Len(Lines(s)) |-> ToU32(Lines(s)[k].start)]
    \o TrailingLineOffset(s)
    \o <<ToU32(Len(s))>>

-----------------------------------------------------------------------------
(* slice::binary_search_by_key, as used at writer.rs:94 and writer.rs:148. *)
(* cmps[i + 1] is the ordering of element i against the key that is        *)
(* searched.  The result is [found |-> TRUE, idx |-> i] for Ok(i) and      *)
(* [found |-> FALSE, idx |-> i] for Err(i), with i counted from 0.         *)

RECURSIVE BinarySearchLoop(_, _, _)
BinarySearchLoop(cmps, left, right) ==
    IF left >= right THEN [found |-> FALSE, idx |-> left]
    ELSE LET mid == left + ((right - left) \div 2)
         IN  IF cmps[mid + 1] = "Less" THEN BinarySearchLoop(cmps, mid + 1, right)
             ELSE IF cmps[mid + 1] = "Greater" THEN BinarySearchLoop(cmps, left, mid)
             ELSE [found |-> TRUE, idx |-> mid]

BinarySearch(cmps) == BinarySearchLoop(cmps, 0, Len(cmps))

-----------------------------------------------------------------------------
(* The inputs of SmCacheWriter::new.                                       *)

Pos(l, c) == [line |-> l, column |-> c]

NamedScope(name) == [kind |-> "NamedScope", name |-> name]
AnonymousScope == [kind |-> "AnonymousScope"]
Unknown == [kind |-> "Unknown"]

\* file names and scope names, as bytes
NameA == <<97>>
NameB == <<98>>
NameF == <<102>>
TextX == <<120, LF>>

\* the (name, contents) pairs a source map may yield: sm.sources().zip(sm.source_contents())
OrigFiles == {[name |-> NameA, contents |-> Some(TextX)],
              [name |-> NameB, contents |-> None]}

\* the minified positions of tokens
Positions == {Pos(0, 1), Pos(1, 0)}

\* the original locations of tokens: token.get_source(), token.get_src_line()
TokenSources == {[src |-> None, src_line |-> 0],
                 [src |-> Some(NameA), src_line |-> 0],
                 [src |-> Some(NameA), src_line |-> 1],
                 [src |-> Some(NameB), src_line |-> 0]}

Tokens == {[dst |-> p, src |-> s.src, src_line |-> s.src_line] :
               p \in Positions, s \in TokenSources}

\* the scope indexes the projection of writer.rs:72-79 may produce
ScopeIndexes == {<<>>,
                 <<[pos |-> Pos(0, 0), result |-> NamedScope(NameF)],
                   [pos |-> Pos(1, 0), result |-> AnonymousScope]>>,
                 <<[pos |-> Pos(0, 1), result |-> NamedScope(<<>>)],
                   [pos |-> Pos(1, 0), result |-> Unknown]>>,
                 <<[pos |-> Pos(1, 0), result |-> NamedScope(NameF)],
                   [pos |-> Pos(1, 1), result |-> Unknown]>>}

\* the decoded source maps: a Hermes map carries a table of function names
\* by bytecode offset (get_original_function_name)
SourceMaps == {[kind |-> "Regular", function_names |-> <<>>],
               [kind |-> "Hermes", function_names |-> <<Some(NameF), None>>]}

\* smh.get_original_function_name(sp.column)
HermesFunctionName(map, column) ==
    IF column + 1 \in DOMAIN map.function_names
    THEN map.function_names[column + 1]
    ELSE None

-----------------------------------------------------------------------------
(* SmCacheWriter::new, writer.rs:25-190                                    *)

\* the closure lookup_scope, writer.rs:80-103
LookupScope(map, index, sp) ==
    IF map.kind = "Hermes" /\ index = <<>>
    THEN LET name == HermesFunctionName(map, sp.column)
         IN  IF name.some THEN NamedScope(name.val) ELSE Unknown
    ELSE LET r == BinarySearch([k \in 1..Len(index) |-> PosCmp(index[k].pos, sp)])
             idx == IF r.found THEN r.idx
                    ELSE IF r.idx = 0 THEN 0
                    ELSE r.idx - 1
         IN  IF idx + 1 \in DOMAIN index THEN index[idx + 1].result ELSE Unknown

\* what sourcemap::decode_slice makes of the sourcemap argument: an error, or
\* a regular map, a Hermes map, or an index map that flatten() turns into a
\* regular map or fails on
Undecoded == [kind |-> "Undecoded", function_names |-> <<>>]

IndexMap(flattened) == [kind |-> "Index", flatten |-> flattened]

DecodedMaps ==
    {None} \cup {Some(m) : m \in SourceMaps}
           \cup {Some(IndexMap(None)),
                 Some(IndexMap(Some([kind |-> "Regular", function_names |-> <<>>])))}

\* the scopes of a minified source, each set given by what ScopeIndex::new
\* and the projection of writer.rs:72-79 make of it: an index, or None for a
\* ScopeIndexError
ScopeSets == {[index |-> Some(ix)] : ix \in ScopeIndexes} \cup {[index |-> None]}

\* vec![]: no scopes, whose index is empty
NoScopes == [index |-> Some(<<>>)]

\* the source argument: whether it parses as JavaScript and with what
\* scopes, and whether SourceContext::new accepts it
MinifiedSources ==
    {[parse |-> "Err", context |-> c] : c \in {"Ok", "Err"}}
        \cup {[parse |-> "Ok", scopes |-> s, context |-> c] :
                  s \in ScopeSets, c \in {"Ok", "Err"}}

\* parse_with_swc, swc.rs:15-37: a source that does not parse has no scopes
\* (ParseWithSwc_Fails: a source that does not parse has scopes that cannot
\* be indexed)
ParseWithSwc_Fails(source_text) ==
    IF source_text.parse = "Err" THEN [index |-> None] ELSE source_text.scopes

ParseWithSwc(source_text) ==
    IF source_text.parse = "Err" THEN NoScopes ELSE source_text.scopes

\* Err(SmCacheErrorInner::..)?, writer.rs:41, 47, 60, 70
SmCacheWriterError(inner) == Some(inner)

\* decoding and flattening the source map, writer.rs:40-55
DecodeSourceMap(decoded) ==
    /\ pc = "decode"
    /\ IF ~decoded.some
       THEN /\ error' = SmCacheWriterError("SourceMap")
            /\ pc' = "failed"
            /\ UNCHANGED sm
       ELSE IF decoded.val.kind = "Index"
       THEN IF decoded.val.flatten.some
            THEN /\ sm' = decoded.val.flatten.val
                 /\ pc' = "scopes"
                 /\ UNCHANGED error
            ELSE /\ error' = SmCacheWriterError("SourceMap")
                 /\ pc' = "failed"
                 /\ UNCHANGED sm
       ELSE /\ sm' = decoded.val
            /\ pc' = "scopes"
            /\ UNCHANGED error
    /\ UNCHANGED <<syntax, scope_index, orig_files, tokens, locations, files,
                   line_offsets, mappings, last>>
    /\ UNCHANGED <<internVars, serializeVars, lineVars, collectorVars>>

\* extracting the scopes and building the scope index, writer.rs:57-79
IndexScopes(source_text) ==
    /\ pc = "scopes"
    /\ syntax' = Some(source_text.parse)
    /\ LET found == ParseWithSwc(source_text)
       IN  IF source_text.context = "Err"
           THEN /\ error' = SmCacheWriterError("SourceContext")
                /\ pc' = "failed"
                /\ UNCHANGED scope_index
           ELSE IF ~found.index.some
           THEN /\ error' = SmCacheWriterError("ScopeIndex")
                /\ pc' = "failed"
                /\ UNCHANGED scope_index
           ELSE /\ scope_index' = found.index.val
                /\ pc' = "files"
                /\ UNCHANGED error
    /\ UNCHANGED <<sm, orig_files, tokens, locations, files, line_offsets, mappings, last>>
    /\ UNCHANGED <<internVars, serializeVars, lineVars, collectorVars>>

\* source.unwrap_or_default(), writer.rs:110
UnwrapOrDefault(contents) == IF contents.some THEN contents.val ELSE <<>>

\* files.sort_by_key(|(name, _file)| *name): a stable sort by name
\* (SortByKey_Unsorted: the sort left out)
SortByKey_Unsorted(fs) == fs

RECURSIVE InsertSorted(_, _)
InsertSorted(sorted, f) ==
    IF sorted = <<>> THEN <<f>>
    ELSE IF StrLess(f.name, sorted[Len(sorted)].name)
         THEN Append(InsertSorted(SubSeq(sorted, 1, Len(sorted) - 1), f), sorted[Len(sorted)])
    ELSE Append(sorted, f)

RECURSIVE SortByKey(_)
SortByKey(fs) ==
    IF fs = <<>> THEN <<>>
    ELSE InsertSorted(SortByKey(SubSeq(fs, 1, Len(fs) - 1)), fs[Len(fs)])

\* the file_idx of a token, writer.rs:146-152
FileIdx(fs, file) ==
    IF file.some
    THEN LET r == BinarySearch([k \in 1..Len(fs) |-> StrCmp(fs[k].name, file.val)])
         IN  IF r.found THEN ToU32(r.idx) ELSE NO_FILE_SENTINEL
    ELSE NO_FILE_SENTINEL

\* the scope_idx of a lookup result, given the offset insert_string returned
\* for its name, writer.rs:154-161
\* (ScopeIdx_Unclamped: the std::cmp::min left out)
ScopeIdx_Unclamped(scope, offset) ==
    IF scope.kind = "NamedScope" THEN offset
    ELSE IF scope.kind = "AnonymousScope" THEN ANONYMOUS_SCOPE_SENTINEL
    ELSE GLOBAL_SCOPE_SENTINEL

ScopeIdx(scope, offset) ==
    IF scope.kind = "NamedScope" THEN Min(offset, GLOBAL_SCOPE_SENTINEL)
    ELSE IF scope.kind = "AnonymousScope" THEN ANONYMOUS_SCOPE_SENTINEL
    ELSE GLOBAL_SCOPE_SENTINEL

\* if last == Some(sl) { continue; }, writer.rs:169
\* (IsDuplicate_Line: a comparison that leaves the scope out)
IsDuplicate_Line(prev, sl) ==
    prev.some /\ prev.val.file_idx = sl.file_idx /\ prev.val.line = sl.line

IsDuplicate(prev, sl) == prev = Some(sl)

\* mappings.push(..), writer.rs:172
\* (PushMapping_Front: the entry put first)
PushMapping_Front(ms, entry) == <<entry>> \o ms

PushMapping(ms, entry) == Append(ms, entry)

\* one iteration of the loop over orig_files, writer.rs:118-134
AddFile(f) ==
    /\ pc = "files"
    /\ Len(orig_files) < MaxFiles
    /\ LET text == UnwrapOrDefault(f.contents)
           n == InsertString(string_bytes, strings, f.name)
           s == InsertString(n.bytes, n.strs, text)
           all == line_offsets \o LineOffsets(text)
       IN  /\ string_bytes' = s.bytes
           /\ strings' = s.strs
           /\ line_offsets' = all
           /\ files' = Append(files,
                  [name |-> f.name,
                   file |-> [name_offset |-> n.ret,
                             source_offset |-> s.ret,
                             line_offsets_start |-> ToU32(Len(line_offsets)),
                             line_offsets_end |-> ToU32(Len(all))]])
    /\ orig_files' = Append(orig_files, f)
    /\ UNCHANGED <<pc, error, syntax, sm, scope_index, tokens, locations, mappings,
                   last, call>>
    /\ UNCHANGED <<serializeVars, lineVars, collectorVars>>

\* the end of the loop over orig_files and the sort, writer.rs:135-138
SortFiles ==
    /\ pc = "files"
    /\ files' = SortByKey(files)
    /\ pc' = "tokens"
    /\ UNCHANGED <<error, syntax, sm, scope_index, orig_files, tokens, locations,
                   line_offsets, mappings, last>>
    /\ UNCHANGED <<internVars, serializeVars, lineVars, collectorVars>>

\* one iteration of the loop over tokens, writer.rs:139-180
ProcessToken(token) ==
    /\ pc = "tokens"
    /\ Len(tokens) < MaxTokens
    /\ LET sp == token.dst
           scope == LookupScope(sm, scope_index, sp)
           file_idx == FileIdx(files, token.src)
           ins == IF scope.kind = "NamedScope"
                  THEN InsertString(string_bytes, strings, scope.name)
                  ELSE [ret |-> 0, bytes |-> string_bytes, strs |-> strings]
           sl == [file_idx |-> file_idx,
                  line |-> token.src_line,
                  scope_idx |-> ScopeIdx(scope, ins.ret)]
       IN  /\ string_bytes' = ins.bytes
           /\ strings' = ins.strs
           /\ IF IsDuplicate(last, sl)
              THEN UNCHANGED <<mappings, last>>
              ELSE /\ mappings' = PushMapping(mappings, [min |-> sp, orig |-> sl])
                   /\ last' = Some(sl)
           /\ locations' = Append(locations, sl)
    /\ tokens' = Append(tokens, token)
    /\ UNCHANGED <<pc, error, syntax, sm, scope_index, orig_files, files, line_offsets,
                   call>>
    /\ UNCHANGED <<serializeVars, lineVars, collectorVars>>

\* the end of the loop over tokens and Ok(Self { .. }), writer.rs:182-189
Finish ==
    /\ pc = "tokens"
    /\ pc' = "built"
    /\ UNCHANGED <<writerVars, internVars, serializeVars, lineVars, collectorVars>>

\* let files = files.into_iter().map(|(_name, file)| file).collect(), writer.rs:182
WriterFiles == [k \in 1..Len(files) |-> files[k].file]

-----------------------------------------------------------------------------
(* WriteWrapper, writer.rs:304-329, and serialize, writer.rs:220-255       *)

\* the sizes of the raw structures, from the layout of the format
HeaderSize == 32
MinifiedSourcePositionSize == 8
OriginalSourceLocationSize == 12
FileSize == 16
LineOffsetSize == 4

\* raw::align_to_eight: the number of bytes up to the next multiple of 8
AlignToEight(n) == (8 - (n % 8)) % 8

\* let buf = &[0u8; 7], writer.rs:325
ZeroBuf == <<0, 0, 0, 0, 0, 0, 0>>

\* WriteWrapper::new, writer.rs:310-315
NewWriteWrapper == [position |-> 0, output |-> <<>>]

\* WriteWrapper::write: the data goes out and the position moves on by its length
Write(w, section, data, len) ==
    [position |-> w.position + len,
     output |-> Append(w.output,
                       [section |-> section, start |-> w.position,
                        len |-> len, data |-> data])]

\* WriteWrapper::align: zero bytes up to the next multiple of 8
\* (Align_None: no padding written; Align_Always: one to eight bytes written)
Align_None(w) == Write(w, "pad", <<>>, 0)

Align_Always(w) ==
    LET len == 8 - (w.position % 8)
    IN  Write(w, "pad", [k \in 1..len |-> 0], len)

Align(w) ==
    LET len == AlignToEight(w.position)
    IN  Write(w, "pad", SubSeq(ZeroBuf, 1, len), len)

\* for entry in table { writer.write(entry.as_bytes())?; }
RECURSIVE WriteEach(_, _, _, _)
WriteEach(w, section, table, size) ==
    IF table = <<>> THEN w
    ELSE WriteEach(Write(w, section, Head(table), size), section, Tail(table), size)

\* the header serialize builds, writer.rs:223-231
Header ==
    [magic |-> "SMCACHE_MAGIC",
     version |-> "SMCACHE_VERSION",
     num_mappings |-> ToU32(Len(mappings)),
     num_files |-> ToU32(Len(files)),
     num_line_offsets |-> ToU32(Len(line_offsets)),
     string_bytes |-> ToU32(Len(string_bytes))]

\* the sections in the order serialize writes them
Sections == <<"header", "min_positions", "orig_locations", "files",
              "line_offsets", "string_bytes">>

\* the states of the WriteWrapper at the start of each section and at the end
SerializeSteps ==
    LET w1 == NewWriteWrapper
        w2 == Align(Write(w1, "header", Header, HeaderSize))
        w3 == Align(WriteEach(w2, "min_positions",
                              [k \in 1..Len(mappings) |-> mappings[k].min],
                              MinifiedSourcePositionSize))
        w4 == Align(WriteEach(w3, "orig_locations",
                              [k \in 1..Len(mappings) |-> mappings[k].orig],
                              OriginalSourceLocationSize))
        w5 == Align(Write(w4, "files", WriterFiles, Len(WriterFiles) * FileSize))
        w6 == Align(Write(w5, "line_offsets", line_offsets,
                          Len(line_offsets) * LineOffsetSize))
        w7 == Write(w6, "string_bytes", string_bytes, Len(string_bytes))
    IN  <<w1, w2, w3, w4, w5, w6, w7>>

\* SmCacheWriter::serialize on the writer new returned
Serialize ==
    /\ pc = "built"
    /\ pc' = "serialized"
    /\ LET steps == SerializeSteps
       IN  /\ position' = steps[7].position
           /\ output' = steps[7].output
           /\ section_start' = [k \in 1..6 |-> steps[k].position]
    /\ UNCHANGED <<writerVars, internVars, lineVars, collectorVars>>

-----------------------------------------------------------------------------
(* The specification of the writer: new, then serialize.                   *)

WriterInit ==
    /\ error = None
    /\ syntax = None
    /\ sm = Undecoded
    /\ scope_index = <<>>
    /\ orig_files = <<>>
    /\ tokens = <<>>
    /\ locations = <<>>
    /\ files = <<>>
    /\ line_offsets = <<>>
    /\ mappings = <<>>
    /\ last = None

WriterIdle ==
    /\ error = None
    /\ syntax = None
    /\ sm = [kind |-> "Regular", function_names |-> <<>>]
    /\ scope_index = <<>>
    /\ orig_files = <<>>
    /\ tokens = <<>>
    /\ locations = <<>>
    /\ files = <<>>
    /\ line_offsets = <<>>
    /\ mappings = <<>>
    /\ last = None

InternInit ==
    /\ string_bytes = <<>>
    /\ strings = {}
    /\ call = None

SerializeInit ==
    /\ position = 0
    /\ output = <<>>
    /\ section_start = <<>>

LinesIdle ==
    /\ source = <<>>
    /\ offsets = <<>>

CollectorIdle ==
    /\ path = <<>>
    /\ scopes = <<>>

Init ==
    /\ pc = "decode"
    /\ WriterInit
    /\ InternInit
    /\ SerializeInit
    /\ LinesIdle
    /\ CollectorIdle

Next ==
    \/ \E decoded \in DecodedMaps : DecodeSourceMap(decoded)
    \/ \E source_text \in MinifiedSources : IndexScopes(source_text)
    \/ \E f \in OrigFiles : AddFile(f)
    \/ SortFiles
    \/ \E token \in Tokens : ProcessToken(token)
    \/ Finish
    \/ Serialize

Spec == Init /\ [][Next]_vars

-----------------------------------------------------------------------------
(* The specification of the interner alone: any sequence of insert_string  *)
(* calls on one (string_bytes, strings).                                   *)

\* the strings that are interned
InternStrings == {<<>>, <<97>>, <<98>>, <<97, 97>>, <<97, 98>>, <<98, 97>>, <<98, 98>>}

\* one call of insert_string, writer.rs:197-215
InsertStringCall(s) ==
    /\ pc = "intern"
    /\ LET r == InsertString(string_bytes, strings, s)
       IN  /\ string_bytes' = r.bytes
           /\ strings' = r.strs
           /\ call' = Some([s |-> s, ret |-> r.ret,
                            bytes_before |-> string_bytes,
                            strings_before |-> strings])
    /\ UNCHANGED <<pc, writerVars, serializeVars, lineVars, collectorVars>>

InitIntern ==
    /\ pc = "intern"
    /\ WriterIdle
    /\ InternInit
    /\ SerializeInit
    /\ LinesIdle
    /\ CollectorIdle

NextIntern == \E s \in InternStrings : InsertStringCall(s)

SpecIntern == InitIntern /\ [][NextIntern]_vars
-----------------------------------------------------------------------------
(* ScopeName and NameComponent, scope_name.rs:15-96                        *)

\* NameComponent::interp and NameComponent::ident
Interp(s) == [inner |-> "Interpolation", text |-> s]
IdentComponent(sym) == [inner |-> "SourceIdentifierToken", text |-> sym]

\* ScopeName::new: no components
NewScopeName == <<>>

\* Display for ScopeName: the texts of the components, one after the other
RECURSIVE Render(_)
Render(name) ==
    IF name = <<>> THEN <<>> ELSE Head(name).text \o Render(Tail(name))

\* the texts of the interpolations, as bytes
Dot == <<46>>
Hash == <<35>>
New == <<110, 101, 119, 32>>
This == <<116, 104, 105, 115>>

-----------------------------------------------------------------------------
(* The ancestors of a node (swc's AstParentNodeRef) and the expressions on *)
(* the left of an assignment.                                              *)

Parent(kind) == [kind |-> kind]
ParentWithIdent(kind, ident) == [kind |-> kind, ident |-> ident]
AssignExpr(left) == [kind |-> "AssignExpr", left |-> left]

IdentExpr(sym) == [kind |-> "Ident", ident |-> sym]
MemberExpr(obj, prop) == [kind |-> "Member", obj |-> obj, prop |-> prop]
ThisExpr == [kind |-> "This"]
OtherExpr == [kind |-> "Other"]

\* the identifiers of the modelled programs, as bytes
IdC == <<67>>
IdE == <<69>>
IdF == <<102>>
IdG == <<103>>
IdK == <<107>>
IdM == <<109>>
IdO == <<111>>
IdP == <<112>>
IdQ == <<113>>
IdV == <<118>>

\* the left-hand sides of assignments: PatOrExpr::Expr, PatOrExpr::Pat
AssignTargets ==
    {[kind |-> "Expr", expr |-> MemberExpr(IdentExpr(IdO), Some(IdK))],
     [kind |-> "Expr", expr |-> MemberExpr(OtherExpr, Some(IdK))],
     [kind |-> "PatIdent", ident |-> IdV],
     [kind |-> "PatExpr", expr |-> MemberExpr(MemberExpr(ThisExpr, None), Some(IdK))],
     [kind |-> "PatOther"]}

\* the nodes that hold exactly one Function, and those that hold one Class
FunctionHolders ==
    {ParentWithIdent("FnDecl", Some(IdF)),
     ParentWithIdent("FnExpr", Some(IdG)), ParentWithIdent("FnExpr", None),
     ParentWithIdent("MethodProp", Some(IdP))}

MethodHolders ==
    {ParentWithIdent("ClassMethod", Some(IdM)), ParentWithIdent("ClassMethod", None),
     ParentWithIdent("PrivateMethod", Some(IdQ))}

ClassHolders ==
    {ParentWithIdent("ClassDecl", Some(IdC)),
     ParentWithIdent("ClassExpr", Some(IdE)), ParentWithIdent("ClassExpr", None)}

\* the other ancestors: declarators, assignments, properties, and any node
\* that name inference passes over (blocks, statements, calls, ..)
PlainNodes ==
    {ParentWithIdent("VarDeclarator", Some(IdV)), ParentWithIdent("VarDeclarator", None),
     ParentWithIdent("KeyValueProp", Some(IdK)),
     Parent("Other")}
    \cup {AssignExpr(t) : t \in AssignTargets}

\* the nodes that may be entered below the last node of the path p
Children(p) ==
    IF p = <<>> THEN FunctionHolders \cup ClassHolders \cup PlainNodes
    ELSE LET k == p[Len(p)].kind
         IN  IF k \in {"FnDecl", "FnExpr", "MethodProp", "ClassMethod", "PrivateMethod",
                       "ClassDecl", "ClassExpr"}
             THEN {}
             ELSE IF k = "Class"
             THEN MethodHolders \cup {Parent("Constructor"), Parent("Other")}
             ELSE FunctionHolders \cup ClassHolders \cup PlainNodes

\* whether a Function, a Class or an arrow function may come below the path
HoldsFunction(p) ==
    p # <<>> /\ p[Len(p)].kind \in {"FnDecl", "FnExpr", "MethodProp", "ClassMethod",
                                    "PrivateMethod"}

HoldsClass(p) == p # <<>> /\ p[Len(p)].kind \in {"ClassDecl", "ClassExpr"}

HoldsExpr(p) ==
    IF p = <<>> THEN TRUE
    ELSE p[Len(p)].kind \notin {"FnDecl", "FnExpr", "MethodProp", "ClassMethod",
                                "PrivateMethod", "ClassDecl", "ClassExpr", "Class"}

-----------------------------------------------------------------------------
(* infer_name_from_expr, swc.rs:264-295                                    *)

RECURSIVE InferNameFromExprLoop(_, _)
InferNameFromExprLoop(expr, name) ==
    IF expr.kind = "Ident" THEN Some(<<IdentComponent(expr.ident)>> \o name)
    ELSE IF expr.kind = "Member"
    THEN InferNameFromExprLoop(expr.obj,
             IF expr.prop.some
             THEN <<Interp(Dot), IdentComponent(expr.prop.val)>> \o name
             ELSE name)
    ELSE IF expr.kind = "This" THEN Some(<<Interp(This)>> \o name)
    ELSE None

InferNameFromExpr(expr) == InferNameFromExprLoop(expr, NewScopeName)

-----------------------------------------------------------------------------
(* infer_name_from_ctx, swc.rs:136-259                                     *)

\* fn push_sep, swc.rs:139-143
PushSep(name) == IF name # <<>> THEN <<Interp(Dot)>> \o name ELSE name

\* name.components.push_front(NameComponent::ident(..))
PushFrontIdent(name, sym) == <<IdentComponent(sym)>> \o name

\* Parent::Function(..) | Parent::ArrowExpr(..) | Parent::Constructor(..), swc.rs:149
\* (IsScopeBoundary_NoFunction: a Function ancestor is passed over)
IsScopeBoundary_NoFunction(parent) == parent.kind \in {"ArrowExpr", "Constructor"}

\* (IsScopeBoundary_NoArrow: an ArrowExpr ancestor is passed over)
IsScopeBoundary_NoArrow(parent) == parent.kind \in {"Function", "Constructor"}

IsScopeBoundary(parent) == parent.kind \in {"Function", "ArrowExpr", "Constructor"}

\* the loop over path.iter().rev(): i is the ancestor looked at, name the
\* components gathered so far
RECURSIVE InferLoop(_, _, _)
InferLoop(p, i, name) ==
    IF i = 0 THEN None
    ELSE LET parent == p[i]
             k == parent.kind
         IN  IF IsScopeBoundary(parent) THEN None
             ELSE IF k = "ClassExpr"
             THEN InferLoop(p, i - 1,
                      IF parent.ident.some THEN PushFrontIdent(name, parent.ident.val)
                      ELSE name)
             ELSE IF k = "ClassDecl"
             THEN Some(PushFrontIdent(PushSep(name), parent.ident.val))
             ELSE IF k \in {"MethodProp", "KeyValueProp", "ClassMethod"}
             THEN InferLoop(p, i - 1,
                      IF parent.ident.some THEN PushFrontIdent(name, parent.ident.val)
                      ELSE name)
             ELSE IF k = "PrivateMethod"
             THEN InferLoop(p, i - 1,
                      <<Interp(Hash)>> \o PushFrontIdent(name, parent.ident.val))
             ELSE IF k = "VarDeclarator"
             THEN IF parent.ident.some
                  THEN Some(PushFrontIdent(PushSep(name), parent.ident.val))
                  ELSE InferLoop(p, i - 1, name)
             ELSE IF k = "AssignExpr"
             THEN IF parent.left.kind \in {"Expr", "PatExpr"}
                  THEN LET expr_name == InferNameFromExpr(parent.left.expr)
                       IN  IF expr_name.some
                           THEN Some(expr_name.val \o PushSep(name))
                           ELSE InferLoop(p, i - 1, name)
                  ELSE IF parent.left.kind = "PatIdent"
                  THEN Some(PushFrontIdent(PushSep(name), parent.left.ident))
                  ELSE InferLoop(p, i - 1, name)
             ELSE InferLoop(p, i - 1, name)

InferNameFromCtx(p) == InferLoop(p, Len(p), NewScopeName)

\* name_from_ident_or_ctx, swc.rs:124-133
NameFromIdentOrCtx(ident, p) ==
    IF ident.some THEN Some(<<IdentComponent(ident.val)>>)
    ELSE InferNameFromCtx(p)

-----------------------------------------------------------------------------
(* ScopeCollector, swc.rs:57-121.  A scope is recorded with the path of    *)
(* its node in place of the node's span.  A visited node has at most       *)
(* MaxDepth ancestors.                                                     *)

Scope(node, at, name) == [node |-> node, at |-> at, name |-> name]

\* the identifier the last ancestor gives a Function or a Class
OwnIdent(p, kinds) ==
    IF p # <<>> /\ p[Len(p)].kind \in kinds THEN p[Len(p)].ident ELSE None

\* visit_arrow_expr, swc.rs:74-84
VisitArrowExpr ==
    /\ pc = "visit"
    /\ Len(path) <= MaxDepth
    /\ HoldsExpr(path)
    /\ scopes' = Append(scopes, Scope("ArrowExpr", path, InferNameFromCtx(path)))
    /\ path' = Append(path, Parent("ArrowExpr"))
    /\ UNCHANGED <<pc, writerVars, internVars, serializeVars, lineVars>>

\* visit_function, swc.rs:86-101
VisitFunction ==
    /\ pc = "visit"
    /\ Len(path) <= MaxDepth
    /\ HoldsFunction(path)
    /\ LET ident == OwnIdent(path, {"FnDecl", "FnExpr"})
       IN  scopes' = Append(scopes,
                            Scope("Function", path, NameFromIdentOrCtx(ident, path)))
    /\ path' = Append(path, Parent("Function"))
    /\ UNCHANGED <<pc, writerVars, internVars, serializeVars, lineVars>>

\* visit_class, swc.rs:106-120
VisitClass ==
    /\ pc = "visit"
    /\ Len(path) <= MaxDepth
    /\ HoldsClass(path)
    /\ LET ident == OwnIdent(path, {"ClassDecl", "ClassExpr"})
           name == NameFromIdentOrCtx(ident, path)
       IN  scopes' = Append(scopes,
                            Scope("Class", path,
                                  IF name.some THEN Some(<<Interp(New)>> \o name.val)
                                  ELSE name))
    /\ path' = Append(path, Parent("Class"))
    /\ UNCHANGED <<pc, writerVars, internVars, serializeVars, lineVars>>

\* the default visit of any other node: its children are visited below it
VisitChild(node) ==
    /\ pc = "visit"
    /\ Len(path) < MaxDepth
    /\ node \in Children(path)
    /\ path' = Append(path, node)
    /\ UNCHANGED <<pc, scopes, writerVars, internVars, serializeVars, lineVars>>

\* ScopeCollector::new, swc.rs:62-64, and the empty path of swc.rs:33
InitCollector ==
    /\ pc = "visit"
    /\ path = <<>>
    /\ scopes = <<>>
    /\ WriterIdle
    /\ InternInit
    /\ SerializeInit
    /\ LinesIdle

AllNodes == FunctionHolders \cup MethodHolders \cup ClassHolders \cup PlainNodes
                \cup {Parent("Constructor")}

NextCollector ==
    \/ VisitArrowExpr
    \/ VisitFunction
    \/ VisitClass
    \/ \E node \in AllNodes : VisitChild(node)

SpecCollector == InitCollector /\ [][NextCollector]_vars

-----------------------------------------------------------------------------
(* The specification of line_offsets alone: one call on any source of up   *)
(* to MaxSourceLen bytes out of a letter, LF and CR.                       *)

SourceBytes == {97, LF, CR}

Sources == UNION {[1..n -> SourceBytes] : n \in 0..MaxSourceLen}

\* Self::line_offsets(source) collected, writer.rs:122 and writer.rs:341
CollectLineOffsets ==
    /\ pc = "lines"
    /\ offsets' = LineOffsets(source)
    /\ pc' = "lines_done"
    /\ UNCHANGED <<source, writerVars, internVars, serializeVars, collectorVars>>

InitLines ==
    /\ pc = "lines"
    /\ source \in Sources
    /\ offsets = <<>>
    /\ WriterIdle
    /\ InternInit
    /\ SerializeInit
    /\ CollectorIdle

NextLines == CollectLineOffsets

SpecLines == InitLines /\ [][NextLines]_vars

-----------------------------------------------------------------------------
(* Properties of SmCacheWriter::new, checked under Spec.                   *)

\* the tokens that open a run of equal locations: the first token, and every
\* token whose location differs from that of the token before it
RunStarts == {i \in 1..Len(tokens) : i = 1 \/ locations[i] # locations[i - 1]}

\* the k-th smallest element of a finite set of numbers
RECURSIVE Nth(_, _)
Nth(S, k) ==
    LET m == CHOOSE x \in S : \A y \in S : x <= y
    IN  IF k = 1 THEN m ELSE Nth(S \ {m}, k - 1)

\* C1: no two consecutive entries of the mappings table carry the same
\* OriginalSourceLocation; the table holds exactly the tokens whose location
\* differs from that of the token before them (a token equal to the last
\* emitted entry is skipped, and only the preceding entry is compared, so a
\* location may come back after a different one).
C1_DedupAdjacent ==
    /\ \A i \in 1..(Len(mappings) - 1) : mappings[i].orig # mappings[i + 1].orig
    /\ Len(mappings) = Cardinality(RunStarts)
    /\ \A k \in 1..Len(mappings) :
           /\ mappings[k].orig = locations[Nth(RunStarts, k)]
           /\ mappings[k].min = tokens[Nth(RunStarts, k)].dst
    /\ last = IF mappings = <<>> THEN None ELSE Some(mappings[Len(mappings)].orig)

\* a token was skipped because its location equalled the entry before it
C1_Witness ==
    /\ pc = "built"
    /\ Len(tokens) = 3
    /\ Len(mappings) = 2
    /\ locations[1] = locations[2]

\* a location that came back after a different one is emitted again
C1_Reappears ==
    /\ pc = "built"
    /\ Len(mappings) = 3
    /\ mappings[1].orig = mappings[3].orig

\* the tokens came in ascending (dst_line, dst_col) order
Ascending(toks) ==
    \A i \in 1..(Len(toks) - 1) : PosLeq(toks[i].dst, toks[i + 1].dst)

\* C2: the mappings are a subsequence of the tokens, in the order the source
\* map yielded them; hence when the tokens come in ascending (dst_line,
\* dst_col) order the min_positions are non-decreasing.
C2_Ordering ==
    /\ \E f \in [1..Len(mappings) -> 1..Len(tokens)] :
           /\ \A k \in 1..(Len(mappings) - 1) : f[k] < f[k + 1]
           /\ \A k \in 1..Len(mappings) :
                  /\ mappings[k].min = tokens[f[k]].dst
                  /\ mappings[k].orig = locations[f[k]]
    /\ Ascending(tokens) =>
           \A k \in 1..(Len(mappings) - 1) : PosLeq(mappings[k].min, mappings[k + 1].min)

\* ascending tokens at two different positions were both emitted
C2_Witness ==
    /\ pc = "built"
    /\ Ascending(tokens)
    /\ Len(tokens) = 3
    /\ Len(mappings) = 2
    /\ mappings[1].min # mappings[2].min

\* the offset under which the interner holds a name
InternedOffset(name) == IF name = <<>> THEN U32_MAX ELSE StringsGet(strings, name)

\* C3: the scope_idx of every emitted mapping follows from the scope lookup
\* of its position: AnonymousScope gives ANONYMOUS_SCOPE_SENTINEL, Unknown
\* gives GLOBAL_SCOPE_SENTINEL, NamedScope(name) gives the smaller of the
\* interned offset of name and GLOBAL_SCOPE_SENTINEL, never
\* ANONYMOUS_SCOPE_SENTINEL.
C3_ScopeIdx ==
    \A k \in 1..Len(mappings) :
        LET scope == LookupScope(sm, scope_index, mappings[k].min)
            idx == mappings[k].orig.scope_idx
        IN  /\ scope.kind = "AnonymousScope" => idx = ANONYMOUS_SCOPE_SENTINEL
            /\ scope.kind = "Unknown" => idx = GLOBAL_SCOPE_SENTINEL
            /\ scope.kind = "NamedScope" =>
                   /\ scope.name # <<>> => StringsHas(strings, scope.name)
                   /\ idx = Min(InternedOffset(scope.name), GLOBAL_SCOPE_SENTINEL)
                   /\ idx # ANONYMOUS_SCOPE_SENTINEL

\* a named scope whose name was interned at an offset of GLOBAL_SCOPE_SENTINEL
\* or more, and one whose name is empty, were both emitted as GLOBAL_SCOPE_SENTINEL
C3_Witness ==
    /\ pc = "built"
    /\ \E k \in 1..Len(mappings) :
           LET scope == LookupScope(sm, scope_index, mappings[k].min)
           IN  /\ scope.kind = "NamedScope"
               /\ scope.name # <<>>
               /\ InternedOffset(scope.name) = U32_MAX
               /\ mappings[k].orig.scope_idx = GLOBAL_SCOPE_SENTINEL

\* the empty name is clamped as well
C3_EmptyName ==
    /\ pc = "built"
    /\ \E k \in 1..Len(mappings) :
           LET scope == LookupScope(sm, scope_index, mappings[k].min)
           IN  /\ scope = NamedScope(<<>>)
               /\ mappings[k].orig.scope_idx = GLOBAL_SCOPE_SENTINEL

\* the names of the source map's source list
SourceNames == {orig_files[k].name : k \in 1..Len(orig_files)}

\* C7: for every token, if it has a source name that occurs in the source
\* list, file_idx is an index into the files table, sorted by name, whose
\* entry was built from a source of that name; otherwise file_idx is
\* NO_FILE_SENTINEL.
C7_FileIdx ==
    /\ pc # "files" =>
           \A k \in 1..(Len(files) - 1) : ~StrLess(files[k + 1].name, files[k].name)
    /\ \A i \in 1..Len(tokens) :
           LET src == tokens[i].src
               idx == locations[i].file_idx
           IN  IF src.some /\ src.val \in SourceNames
               THEN /\ idx + 1 \in DOMAIN files
                    /\ files[idx + 1].name = src.val
                    /\ \E k \in 1..Len(orig_files) :
                           /\ orig_files[k].name = src.val
                           /\ files[idx + 1].file.source_offset =
                                  InternedOffset(UnwrapOrDefault(orig_files[k].contents))
               ELSE idx = NO_FILE_SENTINEL

\* a token of the source that the map listed first and the sort moved last
C7_Witness ==
    /\ pc = "built"
    /\ Len(orig_files) = 2
    /\ orig_files[1].name = NameB
    /\ orig_files[2].name = NameA
    /\ \E i \in 1..Len(tokens) :
           /\ tokens[i].src = Some(NameB)
           /\ locations[i].file_idx = 1
    /\ \E i \in 1..Len(tokens) : tokens[i].src = None
-----------------------------------------------------------------------------
(* Properties of insert_string, checked under SpecIntern.                  *)

\* C4: a non-empty string inserted before returns the offset of the first
\* time and leaves string_bytes unchanged; a new non-empty string returns
\* the length string_bytes had before the call and appends its LEB128
\* length prefix and its bytes; the empty string returns u32::MAX and
\* changes neither string_bytes nor the map.
C4_InsertString ==
    call.some =>
        LET c == call.val
        IN  IF c.s = <<>>
            THEN /\ c.ret = U32_MAX
                 /\ string_bytes = c.bytes_before
                 /\ strings = c.strings_before
            ELSE IF StringsHas(c.strings_before, c.s)
            THEN /\ c.ret = StringsGet(c.strings_before, c.s)
                 /\ string_bytes = c.bytes_before
            ELSE /\ c.ret = Len(c.bytes_before)
                 /\ string_bytes = c.bytes_before \o Leb128(Len(c.s)) \o c.s

\* what holds instead of the middle case: the offset returned for a new
\* string is the length before the call cut to the width of u32
C4_OffsetModuloWidth ==
    call.some =>
        LET c == call.val
        IN  (c.s # <<>> /\ ~StringsHas(c.strings_before, c.s)) =>
                /\ c.ret = Len(c.bytes_before) % (U32_MAX + 1)
                /\ string_bytes = c.bytes_before \o Leb128(Len(c.s)) \o c.s
                /\ strings = c.strings_before \cup {<<c.s, c.ret>>}
-----------------------------------------------------------------------------
(* Properties of serialize, checked under Spec.                            *)

\* the place of a section in the order of the format
Rank(section) == CHOOSE k \in 1..Len(Sections) : Sections[k] = section

\* the end of section k: the start of the next one, or the end of the output
SectionEnd(k) == IF k < Len(Sections) THEN section_start[k + 1] ELSE position

\* the chunks of the output that carry data
DataChunks == {i \in 1..Len(output) : output[i].section # "pad"}

\* C5: in the output of serialize every section (header, min_positions,
\* orig_locations, files, line_offsets, string_bytes) starts at a multiple
\* of 8, and the sections come in exactly that order.
C5_SectionsAligned ==
    pc = "serialized" =>
        /\ section_start[1] = 0
        /\ \A k \in 1..Len(Sections) :
               /\ section_start[k] % 8 = 0
               /\ section_start[k] <= SectionEnd(k)
        /\ \A i \in DataChunks :
               LET k == Rank(output[i].section)
               IN  /\ section_start[k] <= output[i].start
                   /\ output[i].start + output[i].len <= SectionEnd(k)
        /\ \A i, j \in DataChunks :
               i < j => Rank(output[i].section) <= Rank(output[j].section)
        /\ \A k \in {2, 3} :
               Cardinality({i \in DataChunks : output[i].section = Sections[k]})
                   = Len(mappings)

\* a writer whose orig_locations and line_offsets both end off a boundary
C5_Witness ==
    /\ pc = "serialized"
    /\ Len(mappings) % 2 = 1
    /\ Len(line_offsets) % 2 = 1
    /\ Len(files) = 1
    /\ Len(string_bytes) % 8 # 0

\* the bytes of data written for section k
SectionBytes(k) ==
    IF k = 1 THEN HeaderSize
    ELSE IF k = 2 THEN Len(mappings) * MinifiedSourcePositionSize
    ELSE IF k = 3 THEN Len(mappings) * OriginalSourceLocationSize
    ELSE IF k = 4 THEN Len(files) * FileSize
    ELSE IF k = 5 THEN Len(line_offsets) * LineOffsetSize
    ELSE Len(string_bytes)

\* C6, as claimed: every section, the final string_bytes section included,
\* is padded with zero bytes to the next 8-byte boundary, so the length of
\* the output is a multiple of 8.
C6_EverySectionPadded ==
    pc = "serialized" => position % 8 = 0

\* C6, amended: every section but the last is followed by zero bytes up to
\* the next 8-byte boundary and no further; string_bytes is written last
\* with no padding after it, so the output is as long as the start of
\* string_bytes plus its length.
C6_PaddedExceptLast ==
    pc = "serialized" =>
        /\ \A k \in 1..(Len(Sections) - 1) :
               /\ section_start[k + 1] - (section_start[k] + SectionBytes(k)) \in 0..7
               /\ section_start[k + 1] % 8 = 0
        /\ \A i \in 1..Len(output) :
               output[i].section = "pad" =>
                   /\ output[i].len = Len(output[i].data)
                   /\ \A b \in 1..Len(output[i].data) : output[i].data[b] = 0
                   /\ i < Len(output)
        /\ Cardinality({i \in 1..Len(output) : output[i].section = "pad"})
               = Len(Sections) - 1
        /\ output[Len(output)].section = "string_bytes"
        /\ position = section_start[Len(Sections)] + Len(string_bytes)

\* padding was written inside the output and its length is no multiple of 8
C6_Witness ==
    /\ pc = "serialized"
    /\ position % 8 # 0
    /\ \E i \in 1..Len(output) : output[i].section = "pad" /\ output[i].len > 0
-----------------------------------------------------------------------------
(* Properties of line_offsets, checked under SpecLines.                    *)

\* the number of lines of s: one for every LF, and one more for what
\* follows the last LF when that is not empty
CountLines(s) ==
    Cardinality({i \in 1..Len(s) : s[i] = LF})
        + (IF Len(s) > 0 /\ s[Len(s)] # LF THEN 1 ELSE 0)

\* C8: line_offsets(s) ends with len(s); for the empty source it is [0, 0];
\* for a non-empty s it has (number of lines of s) + (1 if s ends with a
\* newline) + 1 entries.
C8_LineOffsetLaws ==
    pc = "lines_done" =>
        /\ offsets # <<>>
        /\ offsets[Len(offsets)] = Len(source)
        /\ source = <<>> => offsets = <<0, 0>>
        /\ source # <<>> =>
               Len(offsets) = CountLines(source)
                                  + (IF EndsWithNewline(source) THEN 1 ELSE 0) + 1

\* what holds of every source, the empty one included
C8_LawsOfTheCode ==
    pc = "lines_done" =>
        /\ offsets[Len(offsets)] = Len(source)
        /\ Len(offsets) = CountLines(source)
                              + (IF EndsWithNewline(source) THEN 1 ELSE 0) + 1
        /\ source = <<>> => offsets = <<0>>

\* the set S of numbers as an ascending sequence
Ascend(S) == [k \in 1..Cardinality(S) |-> Nth(S, k)]

\* the offsets at which a line of s starts, when the bytes at the indexes
\* Ends(s) end a line: offset 0, and the offset after each such byte, as
\* far as it lies inside s
LineStarts(s, ends) ==
    {0 : i \in 1..Min(Len(s), 1)} \cup {i \in ends : i < Len(s)}

\* a line ends at a LF, and at a CR that no LF follows
EndsCRLF(s) ==
    {i \in 1..Len(s) : \/ s[i] = LF
                       \/ s[i] = CR /\ ~(i < Len(s) /\ s[i + 1] = LF)}

\* a line ends at a LF only (a CR before it belongs to the line ending)
EndsLF(s) == {i \in 1..Len(s) : s[i] = LF}

-----------------------------------------------------------------------------
(* Properties of the scope collector, checked under SpecCollector.         *)

\* the ancestors that name inference does not pass over
IsNamingAncestor(n) == n.kind \notin {"Other", "Class", "FnExpr"}

NamingAncestors(p) == SelectSeq(p, IsNamingAncestor)

\* the n-th nearest of the ancestors that inference does not pass over
Nearest(p, n) == NamingAncestors(p)[Len(NamingAncestors(p)) + 1 - n]

\* "C.m"
TextCDotM == IdC \o Dot \o IdM

\* the scope e is the Function of method m of class declaration C
IsMethodOfClass(e) ==
    /\ e.node = "Function"
    /\ e.at[Len(e.at)] = ParentWithIdent("ClassMethod", Some(IdM))
    /\ Len(NamingAncestors(e.at)) >= 2
    /\ Nearest(e.at, 2) = ParentWithIdent("ClassDecl", Some(IdC))

\* the scope e is an anonymous function in the body of method m of class
\* declaration C: its nearest ancestors are the method's Function, then
\* ClassMethod m, then ClassDecl C
IsAnonymousInMethodBody(e) ==
    /\ e.node = "Function"
    /\ e.at[Len(e.at)] = ParentWithIdent("FnExpr", None)
    /\ Len(NamingAncestors(e.at)) >= 3
    /\ Nearest(e.at, 1) = Parent("Function")
    /\ Nearest(e.at, 2) = ParentWithIdent("ClassMethod", Some(IdM))
    /\ Nearest(e.at, 3) = ParentWithIdent("ClassDecl", Some(IdC))

\* C10, as claimed: an anonymous function nested in the body of method m of
\* class declaration C is given the name that renders as "C.m".
C10_NestedFunctionNamed ==
    \A i \in 1..Len(scopes) :
        IsAnonymousInMethodBody(scopes[i]) =>
            /\ scopes[i].name.some
            /\ Render(scopes[i].name.val) = TextCDotM

\* C10, amended: "C.m" is the name inferred for the Function of method m
\* itself (nearest ancestors ClassMethod m, then ClassDecl C); an anonymous
\* function nested in the body of m, with the method's Function as its
\* nearest ancestor, is given no name.
C10_MethodNamedNestedNot ==
    \A i \in 1..Len(scopes) :
        /\ IsMethodOfClass(scopes[i]) =>
               /\ scopes[i].name.some
               /\ Render(scopes[i].name.val) = TextCDotM
        /\ IsAnonymousInMethodBody(scopes[i]) => scopes[i].name = None

\* the method and an anonymous function in its body were both visited
C10_Witness ==
    /\ \E i \in 1..Len(scopes) : IsMethodOfClass(scopes[i])
    /\ \E i \in 1..Len(scopes) :
           IsAnonymousInMethodBody(scopes[i]) /\ scopes[i].name = None

\* two identifier components next to each other, with no interpolation between
AdjacentIdents(name) ==
    \E j \in 1..(Len(name) - 1) :
        /\ name[j].inner = "SourceIdentifierToken"
        /\ name[j + 1].inner = "SourceIdentifierToken"

\* C11: no name inferred from an ancestor path holds two identifier
\* components directly next to each other: an interpolation "." separates an
\* outer identifier from the components gathered before it.
C11_IdentsSeparated ==
    \A i \in 1..Len(scopes) :
        scopes[i].name.some => ~AdjacentIdents(scopes[i].name.val)
-----------------------------------------------------------------------------
(* Properties of lookup_scope, checked under Spec.                         *)

\* the entries of the scope index that start at or before the position sp
StartsAtOrBefore(index, sp) == {k \in 1..Len(index) : PosLeq(index[k].pos, sp)}

\* the result of the entry with the greatest start_position <= sp, and
\* Unknown when there is no such entry
GreatestEntryAtOrBefore(index, sp) ==
    LET S == StartsAtOrBefore(index, sp)
    IN  IF S = {} THEN Unknown
        ELSE index[CHOOSE k \in S : \A j \in S : j <= k].result

C12_FirstEntryBeforeStart ==
    \A i \in 1..Len(tokens) :
        sm.kind = "Regular" =>
            LookupScope(sm, scope_index, tokens[i].dst)
                = IF scope_index # <<>> /\ StartsAtOrBefore(scope_index, tokens[i].dst) = {}
                  THEN scope_index[1].result
                  ELSE GreatestEntryAtOrBefore(scope_index, tokens[i].dst)
-----------------------------------------------------------------------------
(* Properties of the failures of SmCacheWriter::new, checked under Spec.   *)

\* new has returned Ok(Self { .. })
Returned == pc \in {"built", "serialized"}

\* C13: a source that does not parse as JavaScript does not make new fail:
\* it is given no scopes, no ScopeIndex error follows, and with a regular
\* source map the writer that is returned has one mapping for every token
\* that differs in location from the token before it, each with scope_idx =
\* GLOBAL_SCOPE_SENTINEL.  An error is a source map, source context or
\* scope index error, and then nothing of the writer was built.
C13_ParseFailureRecovered ==
    /\ syntax = Some("Err") =>
           /\ error \in {None, SmCacheWriterError("SourceContext")}
           /\ scope_index = <<>>
           /\ sm.kind = "Regular" =>
                  /\ Len(mappings) = Cardinality(RunStarts)
                  /\ \A k \in 1..Len(mappings) :
                         mappings[k].orig.scope_idx = GLOBAL_SCOPE_SENTINEL
    /\ Returned => error = None
    /\ error # None =>
           /\ pc = "failed"
           /\ error \in {SmCacheWriterError("SourceMap"),
                         SmCacheWriterError("SourceContext"),
                         SmCacheWriterError("ScopeIndex")}
           /\ files = <<>> /\ mappings = <<>> /\ string_bytes = <<>>
    /\ pc = "failed" => error # None

\* a writer built from a source that does not parse, with a regular source
\* map: several mappings, and a token dropped as a duplicate
C13_Witness ==
    /\ Returned
    /\ syntax = Some("Err")
    /\ sm.kind = "Regular"
    /\ Len(mappings) >= 2
    /\ Len(tokens) > Len(mappings)

\* new fails on a source that does not parse, for its source context
C13_ErrorAfterParseFailure ==
    /\ pc = "failed"
    /\ syntax = Some("Err")
    /\ error = SmCacheWriterError("SourceContext")
-----------------------------------------------------------------------------
(* Properties of infer_name_from_ctx, checked under SpecCollector.         *)

\* an expression that infer_name_from_expr can name: an identifier, this,
\* or a member expression on one of them
RECURSIVE NameableExpr(_)
NameableExpr(expr) ==
    \/ expr.kind \in {"Ident", "This"}
    \/ expr.kind = "Member" /\ NameableExpr(expr.obj)

\* the ancestors at which inference stops with a name
IsStoppingAncestor(n) ==
    \/ n.kind = "ClassDecl"
    \/ n.kind = "VarDeclarator" /\ n.ident.some
    \/ /\ n.kind = "AssignExpr"
       /\ \/ n.left.kind = "PatIdent"
          \/ n.left.kind \in {"Expr", "PatExpr"} /\ NameableExpr(n.left.expr)

\* the ancestors that create a scope of their own
CreatesScope(n) == n.kind \in {"Function", "ArrowExpr", "Constructor"}

\* the ancestors that only add a key to the name
AddsKey(n) ==
    /\ n.kind \in {"MethodProp", "KeyValueProp", "ClassMethod", "PrivateMethod", "ClassExpr"}
    /\ n.ident.some

\* walking up from the end of p, a stopping ancestor comes before any
\* ancestor that creates a scope
StopsBeforeScope(p) ==
    \E i \in 1..Len(p) :
        /\ IsStoppingAncestor(p[i])
        /\ \A j \in (i + 1)..Len(p) : ~CreatesScope(p[j])

\* the scope e was named by infer_name_from_ctx, not by an identifier of its own
IsInferred(e) ==
    IF e.node = "Function" THEN OwnIdent(e.at, {"FnDecl", "FnExpr"}) = None
    ELSE IF e.node = "Class" THEN OwnIdent(e.at, {"ClassDecl", "ClassExpr"}) = None
    ELSE TRUE

\* what infer_name_from_ctx returned for it: a class has "new " put in front
InferredName(e) == IF e.node = "Class" THEN Tail(e.name.val) ELSE e.name.val

\* C14: infer_name_from_ctx returns a name exactly when the walk up the
\* ancestors meets a ClassDecl, a VarDeclarator with an identifier or an
\* AssignExpr with a nameable left-hand side before any Function, ArrowExpr
\* or Constructor; otherwise, also when keys were collected and the path
\* ran out, it returns None.  A returned name begins with an identifier or
\* with the interpolation "this".
C14_NameOnlyAtStoppingAncestor ==
    \A i \in 1..Len(scopes) :
        IsInferred(scopes[i]) =>
            /\ scopes[i].name.some <=> StopsBeforeScope(scopes[i].at)
            /\ scopes[i].name.some =>
                   /\ InferredName(scopes[i]) # <<>>
                   /\ \/ InferredName(scopes[i])[1].inner = "SourceIdentifierToken"
                      \/ InferredName(scopes[i])[1] = Interp(This)

\* one scope is left without a name although a key was collected, because
\* its path ran out; another is named from an assignment to this
C14_Witness ==
    /\ \E i \in 1..Len(scopes) :
           /\ IsInferred(scopes[i])
           /\ scopes[i].name = None
           /\ \A j \in 1..Len(scopes[i].at) : ~CreatesScope(scopes[i].at[j])
           /\ \E j \in 1..Len(scopes[i].at) : AddsKey(scopes[i].at[j])
    /\ \E i \in 1..Len(scopes) :
           /\ IsInferred(scopes[i])
           /\ scopes[i].name.some
           /\ InferredName(scopes[i])[1] = Interp(This)

====
